---------------------------- MODULE Spec2Model ----------------------------
(***************************************************************************)
(* A model of bibtex/generator.py (class IEEEBibTeX).                      *)
(*                                                                         *)
(* A Python str is a sequence of one-character strings, so that split,     *)
(* strip, rstrip, lower, join and the three regular expressions are        *)
(* computed character by character, as the interpreter computes them.      *)
(* Python's None is the value None below; a dict is a sequence of          *)
(* <<key, value>> pairs in insertion order.                                *)
(***************************************************************************)
EXTENDS Integers, Sequences, FiniteSets, TLC

VARIABLES
    pc,          \* "idle" | "fetch" (blocked in requests.get) | "done"
    call,        \* the entry point invoked and its arguments
    doi,         \* generate_from_identifier: the local variable doi
    data,        \* the registry record the fetch returned (response.json()['message'])
    fetches,     \* the DOIs passed to requests.get during the invocation, in order
    result       \* what the call returned or raised

vars == <<pc, call, doi, data, fetches, result>>

---------------------------------------------------------------------------
(* Python values *)

None == <<"NoneType">>

\* `if value:` for a value that is a str or None
Truthy(v) == v # None /\ v # <<>>

Absent == [has |-> FALSE]
Some(v) == [has |-> TRUE, val |-> v]

\* dict.get(key, default) on a JSON object whose keys are record fields
Get(field, default) == IF field.has THEN field.val ELSE default

Text(t) == [kind |-> "text", text |-> t]
Raised(e) == [kind |-> "error", error |-> e]
Returned(v) == [kind |-> "value", value |-> v]
NoResult == [kind |-> "none"]

---------------------------------------------------------------------------
(* str methods *)

whitespace == {" ", "\n", "\t", "\r"}
digits == {"0", "1", "2", "3", "4", "5", "6", "7", "8", "9"}
ascii_uppercase == <<"A", "B", "C", "D", "E", "F", "G", "H", "I", "J", "K", "L", "M", "N", "O", "P", "Q", "R", "S", "T", "U", "V", "W", "X", "Y", "Z">>
ascii_lowercase == <<"a", "b", "c", "d", "e", "f", "g", "h", "i", "j", "k", "l", "m", "n", "o", "p", "q", "r", "s", "t", "u", "v", "w", "x", "y", "z">>

RECURSIVE lstrip(_)
lstrip(s) ==
    IF s # <<>> /\ Head(s) \in whitespace THEN lstrip(Tail(s)) ELSE s

\* str.rstrip(chars): drops EVERY trailing character that is in chars
RECURSIVE rstrip(_, _)
rstrip(s, chars) ==
    IF s # <<>> /\ s[Len(s)] \in chars
    THEN rstrip(SubSeq(s, 1, Len(s) - 1), chars)
    ELSE s

strip(s) == rstrip(lstrip(s), whitespace)

\* str.split(sep) for a one-character sep: always at least one piece
RECURSIVE split(_, _)
split(s, sep) ==
    IF \E i \in 1..Len(s) : s[i] = sep
    THEN LET i == CHOOSE k \in 1..Len(s) :
                      s[k] = sep /\ \A j \in 1..(k - 1) : s[j] # sep
         IN  <<SubSeq(s, 1, i - 1)>> \o split(SubSeq(s, i + 1, Len(s)), sep)
    ELSE <<s>>

\* str.split(): runs of whitespace separate, empty pieces are dropped
RECURSIVE split_ws(_)
split_ws(s) ==
    LET t == lstrip(s) IN
    IF t = <<>> THEN <<>>
    ELSE LET n == CHOOSE k \in 1..(Len(t) + 1) :
                      /\ k = Len(t) + 1 \/ t[k] \in whitespace
                      /\ \A j \in 1..(k - 1) : t[j] \notin whitespace
         IN  <<SubSeq(t, 1, n - 1)>> \o split_ws(SubSeq(t, n, Len(t)))

\* sep.join(xs)
RECURSIVE join(_, _)
join(sep, xs) ==
    IF xs = <<>> THEN <<>>
    ELSE IF Len(xs) = 1 THEN xs[1]
    ELSE xs[1] \o sep \o join(sep, Tail(xs))

lower_char(c) ==
    IF \E i \in 1..Len(ascii_uppercase) : ascii_uppercase[i] = c
    THEN ascii_lowercase[CHOOSE i \in 1..Len(ascii_uppercase) : ascii_uppercase[i] = c]
    ELSE c

lower(s) == [i \in 1..Len(s) |-> lower_char(s[i])]

startswith(s, prefix) ==
    Len(s) >= Len(prefix) /\ SubSeq(s, 1, Len(prefix)) = prefix

\* str(n) for a non-negative int
RECURSIVE str_int(_)
str_int(n) ==
    LET d == <<"0", "1", "2", "3", "4", "5", "6", "7", "8", "9">>[(n % 10) + 1] IN
    IF n < 10 THEN <<d>> ELSE str_int(n \div 10) \o <<d>>

\* str(None)
str_None == <<"N", "o", "n", "e">>

---------------------------------------------------------------------------
(* dict: a sequence of <<key, value>> pairs, in insertion order *)

HasKey(d, k) == \E i \in 1..Len(d) : d[i][1] = k

\* d[k] for a key the dict holds
Item(d, k) == d[CHOOSE i \in 1..Len(d) : d[i][1] = k][2]

\* d.get(k, default)
DictGet(d, k, default) == IF HasKey(d, k) THEN Item(d, k) ELSE default

---------------------------------------------------------------------------
(* IEEEBibTeX._format_authors *)

strip_each(xs) == [i \in 1..Len(xs) |-> strip(xs[i])]

\* _format_authors without the strip of each name
_format_authors_unstripped(authors) == join(<<" ", "a", "n", "d", " ">>, split(authors, ","))

_format_authors(authors) == join(<<" ", "a", "n", "d", " ">>, strip_each(split(authors, ",")))

---------------------------------------------------------------------------
(* IEEEBibTeX._create_entry *)

\* the for loop over fields.items(): one line per field whose value is truthy
RECURSIVE entry_lines(_)
entry_lines(fields) ==
    IF fields = <<>> THEN <<>>
    ELSE LET key == Head(fields)[1]
             value == Head(fields)[2]
         IN  (IF Truthy(value)
              THEN <<" ", " ">> \o key \o <<" ", "=", " ", "{">> \o value \o <<"}", ",", "\n">>
              ELSE <<>>) \o entry_lines(Tail(fields))

_create_entry(entry_type, citation_key, fields) ==
    LET entry == <<"@">> \o entry_type \o <<"{">> \o citation_key \o <<",", "\n">>
                     \o entry_lines(fields)
    IN  rstrip(entry, {",", "\n"}) \o <<"\n", "}">>

---------------------------------------------------------------------------
(* IEEEBibTeX.create_article, IEEEBibTeX.create_inproceeding *)

\* create_article with number placed before volume in the dict literal
create_article_reordered(citation_key, title, authors, journal, year, volume, number, pages, doi_) ==
    LET fields == << <<<<"a", "u", "t", "h", "o", "r">>, _format_authors(authors)>>,
                     <<<<"t", "i", "t", "l", "e">>, title>>,
                     <<<<"j", "o", "u", "r", "n", "a", "l">>, journal>>,
                     <<<<"y", "e", "a", "r">>, year>>,
                     <<<<"n", "u", "m", "b", "e", "r">>, number>>,
                     <<<<"v", "o", "l", "u", "m", "e">>, volume>>,
                     <<<<"p", "a", "g", "e", "s">>, pages>>,
                     <<<<"d", "o", "i">>, doi_>> >>
    IN  _create_entry(<<"a", "r", "t", "i", "c", "l", "e">>, citation_key, fields)

create_article(citation_key, title, authors, journal, year, volume, number, pages, doi_) ==
    LET fields == << <<<<"a", "u", "t", "h", "o", "r">>, _format_authors(authors)>>,
                     <<<<"t", "i", "t", "l", "e">>, title>>,
                     <<<<"j", "o", "u", "r", "n", "a", "l">>, journal>>,
                     <<<<"y", "e", "a", "r">>, year>>,
                     <<<<"v", "o", "l", "u", "m", "e">>, volume>>,
                     <<<<"n", "u", "m", "b", "e", "r">>, number>>,
                     <<<<"p", "a", "g", "e", "s">>, pages>>,
                     <<<<"d", "o", "i">>, doi_>> >>
    IN  _create_entry(<<"a", "r", "t", "i", "c", "l", "e">>, citation_key, fields)

create_inproceeding(citation_key, title, authors, booktitle, year, pages, location, doi_) ==
    LET fields == << <<<<"a", "u", "t", "h", "o", "r">>, _format_authors(authors)>>,
                     <<<<"t", "i", "t", "l", "e">>, title>>,
                     <<<<"b", "o", "o", "k", "t", "i", "t", "l", "e">>, booktitle>>,
                     <<<<"y", "e", "a", "r">>, year>>,
                     <<<<"p", "a", "g", "e", "s">>, pages>>,
                     <<<<"a", "d", "d", "r", "e", "s", "s">>, location>>,
                     <<<<"d", "o", "i">>, doi_>> >>
    IN  _create_entry(<<"i", "n", "p", "r", "o", "c", "e", "e", "d", "i", "n", "g">>, citation_key, fields)

---------------------------------------------------------------------------
(* IEEEBibTeX.extract_doi_from_url: re.search over the three doi_patterns *)

\* the class [^/\s]
seg_char(c) == c # "/" /\ c \notin whitespace

\* where a greedy [^/\s]+ or [0-9]+ that starts at i stops (i itself if it matches nothing)
seg_end(s, i) ==
    CHOOSE j \in i..(Len(s) + 1) :
        /\ \A k \in i..(j - 1) : seg_char(s[k])
        /\ j = Len(s) + 1 \/ ~seg_char(s[j])

digits_end(s, i) ==
    CHOOSE j \in i..(Len(s) + 1) :
        /\ \A k \in i..(j - 1) : s[k] \in digits
        /\ j = Len(s) + 1 \/ s[j] \notin digits

\* [^/\s]+/[^/\s]+ matched at i: the index after the match, 0 when it does not match
seg_seg_at(s, i) ==
    LET a == seg_end(s, i) IN
    IF a > i /\ a <= Len(s) /\ s[a] = "/"
    THEN LET b == seg_end(s, a + 1) IN IF b > a + 1 THEN b ELSE 0
    ELSE 0

\* [0-9]+\.[0-9]+/[^/\s]+ matched at i: the index after the match, 0 when it does not match
num_seg_at(s, i) ==
    LET a == digits_end(s, i) IN
    IF a > i /\ a <= Len(s) /\ s[a] = "."
    THEN LET b == digits_end(s, a + 1) IN
         IF b > a + 1 /\ b <= Len(s) /\ s[b] = "/"
         THEN LET c == seg_end(s, b + 1) IN IF c > b + 1 THEN c ELSE 0
         ELSE 0
    ELSE 0

\* doi_patterns with the bare pattern tried first
doi_patterns_bare_first ==
    << [prefix |-> <<>>,        group |-> "num.num/seg"],
       [prefix |-> <<"d", "o", "i", ".", "o", "r", "g", "/">>, group |-> "seg/seg"],
       [prefix |-> <<"d", "o", "i", ":">>,     group |-> "seg/seg"] >>

\* a pattern is a literal prefix followed by the captured group
doi_patterns ==
    << [prefix |-> <<"d", "o", "i", ".", "o", "r", "g", "/">>, group |-> "seg/seg"],
       [prefix |-> <<"d", "o", "i", ":">>,     group |-> "seg/seg"],
       [prefix |-> <<>>,        group |-> "num.num/seg"] >>

\* the pattern matched with its first character at i: the index after the match, or 0
match_at(pattern, s, i) ==
    LET g == i + Len(pattern.prefix) IN
    IF g - 1 <= Len(s) /\ SubSeq(s, i, g - 1) = pattern.prefix
    THEN IF pattern.group = "seg/seg" THEN seg_seg_at(s, g) ELSE num_seg_at(s, g)
    ELSE 0

\* re.search(pattern, s) followed by match.group(1): the leftmost match, None without one
re_search_group(pattern, s) ==
    IF \E i \in 1..Len(s) : match_at(pattern, s, i) # 0
    THEN LET i == CHOOSE k \in 1..Len(s) :
                      /\ match_at(pattern, s, k) # 0
                      /\ \A j \in 1..(k - 1) : match_at(pattern, s, j) = 0
         IN  SubSeq(s, i + Len(pattern.prefix), match_at(pattern, s, i) - 1)
    ELSE None

\* the for loop over doi_patterns, from the n-th pattern on
RECURSIVE first_match(_, _, _)
first_match(patterns, url, n) ==
    IF n > Len(patterns) THEN None
    ELSE LET m == re_search_group(patterns[n], url) IN
         IF m # None THEN m ELSE first_match(patterns, url, n + 1)

extract_doi_from_url(url) == first_match(doi_patterns, url, 1)

---------------------------------------------------------------------------
(* IEEEBibTeX.fetch_from_doi: the mapping of the registry record            *)
(* A registry record (response.json()['message']) is a record of optional  *)
(* members: title, author, published_print, type, container_title, volume, *)
(* issue, page.                                                            *)

\* f"{author.get('given', '')} {author.get('family', '')}"
author_name(author) == Get(author.given, <<>>) \o <<" ">> \o Get(author.family, <<>>)

author_names(authors) == [i \in 1..Len(authors) |-> author_name(authors[i])]

\* str(data.get('published-print', {}).get('date-parts', [[None]])[0][0])
year_of(message) ==
    IF message.published_print.has
    THEN str_int(message.published_print.val.date_parts[1][1])
    ELSE str_None

\* the optional members added after the dict literal, each under `if data.get(...)`
optional_item(key, member, value) ==
    IF member.has /\ member.val # <<>> THEN << <<key, value>> >> ELSE <<>>

\* data.get('title', [None])[0] raises IndexError on an empty title list
title_raises(message) == message.title.has /\ message.title.val = <<>>

publication_info(message, doi_) ==
    << <<<<"t", "i", "t", "l", "e">>, Get(message.title, <<None>>)[1]>>,
       <<<<"a", "u", "t", "h", "o", "r", "s">>, join(<<",", " ">>, author_names(Get(message.author, <<>>)))>>,
       <<<<"y", "e", "a", "r">>, year_of(message)>>,
       <<<<"d", "o", "i">>, doi_>>,
       <<<<"t", "y", "p", "e">>, Get(message.type, None)>> >>
    \o optional_item(<<"j", "o", "u", "r", "n", "a", "l">>, message.container_title,
                     Get(message.container_title, <<None>>)[1])
    \o optional_item(<<"v", "o", "l", "u", "m", "e">>, message.volume, Get(message.volume, None))
    \o optional_item(<<"n", "u", "m", "b", "e", "r">>, message.issue, Get(message.issue, None))
    \o optional_item(<<"p", "a", "g", "e", "s">>, message.page, Get(message.page, None))

---------------------------------------------------------------------------
(* IEEEBibTeX.generate_from_identifier, after the fetch *)

type_mapping ==
    << <<<<"j", "o", "u", "r", "n", "a", "l", "-", "a", "r", "t", "i", "c", "l", "e">>, <<"a", "r", "t", "i", "c", "l", "e">>>>,
       <<<<"p", "r", "o", "c", "e", "e", "d", "i", "n", "g", "s", "-", "a", "r", "t", "i", "c", "l", "e">>, <<"i", "n", "p", "r", "o", "c", "e", "e", "d", "i", "n", "g", "s">>>> >>

\* entry_type_of with the sourceType itself as the default
entry_type_raw(type) ==
    DictGet(type_mapping, type, IF type = None THEN str_None ELSE type)

\* type_mapping.get(pub_info['type'], 'article')
entry_type_of(type) == DictGet(type_mapping, type, <<"a", "r", "t", "i", "c", "l", "e">>)

\* the two indexings of the citation key: [0] and [-1] of a str.split()
first_author_tokens(pub_info) == split_ws(split(Item(pub_info, <<"a", "u", "t", "h", "o", "r", "s">>), ",")[1])

citation_key_of(pub_info) ==
    LET tokens == first_author_tokens(pub_info)
        first_author == lower(tokens[Len(tokens)])
    IN  first_author \o Item(pub_info, <<"y", "e", "a", "r">>)
            \o lower(split_ws(Item(pub_info, <<"t", "i", "t", "l", "e">>))[1])

\* lines 98-136: what generate_from_identifier returns or raises for a pub_info
build_entry(pub_info) ==
    IF first_author_tokens(pub_info) = <<>> THEN Raised("IndexError")
    ELSE IF Item(pub_info, <<"t", "i", "t", "l", "e">>) = None THEN Raised("AttributeError")
    ELSE IF split_ws(Item(pub_info, <<"t", "i", "t", "l", "e">>)) = <<>> THEN Raised("IndexError")
    ELSE LET citation_key == citation_key_of(pub_info)
             entry_type == entry_type_of(Item(pub_info, <<"t", "y", "p", "e">>))
         IN  IF entry_type = <<"a", "r", "t", "i", "c", "l", "e">>
             THEN Text(create_article(citation_key,
                                      Item(pub_info, <<"t", "i", "t", "l", "e">>),
                                      Item(pub_info, <<"a", "u", "t", "h", "o", "r", "s">>),
                                      DictGet(pub_info, <<"j", "o", "u", "r", "n", "a", "l">>, <<>>),
                                      Item(pub_info, <<"y", "e", "a", "r">>),
                                      DictGet(pub_info, <<"v", "o", "l", "u", "m", "e">>, None),
                                      DictGet(pub_info, <<"n", "u", "m", "b", "e", "r">>, None),
                                      DictGet(pub_info, <<"p", "a", "g", "e", "s">>, None),
                                      Item(pub_info, <<"d", "o", "i">>)))
             ELSE IF entry_type = <<"i", "n", "p", "r", "o", "c", "e", "e", "d", "i", "n", "g", "s">>
             \* pub_info.get['pages'] subscripts the bound method: TypeError,
             \* raised while the arguments of create_inproceeding are evaluated
             THEN Raised("TypeError")
             ELSE Text(_create_entry(entry_type, citation_key, pub_info))

\* resolve_doi without the `if not doi` check
resolve_doi_unchecked(identifier) ==
    IF startswith(identifier, <<"h", "t", "t", "p">>)
    THEN Returned(extract_doi_from_url(identifier))
    ELSE Returned(identifier)

\* lines 88-93: the DOI the identifier resolves to, or the ValueError
resolve_doi(identifier) ==
    IF startswith(identifier, <<"h", "t", "t", "p">>)
    THEN LET d == extract_doi_from_url(identifier) IN
         IF ~Truthy(d) THEN Raised("ValueError") ELSE Returned(d)
    ELSE Returned(identifier)

---------------------------------------------------------------------------
(* The inputs *)

MaxUrlParts == 4
MaxIdParts == 3
MaxAuthors == 2
MaxNames == 3
MaxFields == 2

RECURSIVE Concats(_, _)
Concats(parts, n) ==
    IF n = 0 THEN {<<>>}
    ELSE LET shorter == Concats(parts, n - 1)
         IN  shorter \cup {p \o u : p \in parts, u \in shorter}

Lists(S, n) == UNION {[1..k -> S] : k \in 0..n}

UrlParts == {<<"d", "o", "i", ".", "o", "r", "g", "/">>, <<"d", "o", "i", ":">>, <<"1", ".", "1", "/">>, <<"a">>, <<"b", "/">>, <<"/">>, <<" ">>}
Urls == Concats(UrlParts, MaxUrlParts)

\* identifiers that begin with http, and bare DOIs
UrlIdentifiers == {<<"h", "t", "t", "p">> \o u : u \in Concats(UrlParts, MaxIdParts)}
Identifiers == {<<"1", "0", ".", "1", "2", "3", "4", "/", "e", "x", "a", "m", "p", "l", "e", ".", "1", "2", "3">>, <<"h", "t", "t", "p", "s", ":", "/", "/", "d", "o", "i", ".", "o", "r", "g", "/", "1", "0", ".", "1", "2", "3", "4", "/", "e", "x", "a", "m", "p", "l", "e", ".", "1", "2", "3">>,
                <<"h", "t", "t", "p", "s", ":", "/", "/", "i", "n", "v", "a", "l", "i", "d", "-", "u", "r", "l", ".", "c", "o", "m">>}

Titles == {<<>>, <<" ">>, <<"T", "e", "s", "t", " ", "A", "r", "t", "i", "c", "l", "e">>, <<"N", "e", "t", "s", ",", " ", "d", "e", "e", "p", " ", "a", "n", "d", " ", "w", "i", "d", "e">>}
TitleMembers == {Absent, Some(<<>>)} \cup {Some(<<t>>) : t \in Titles}

RegistryAuthors ==
    { [given |-> Some(<<"J", "o", "h", "n">>), family |-> Some(<<"D", "o", "e">>)],
      [given |-> Absent,        family |-> Some(<<"S", "m", "i", "t", "h">>)],
      [given |-> Some(<<"A", "n", "n">>),  family |-> Some(<<"L", "e", "e", ",", " ", "J", "r">>)],
      [given |-> Absent,        family |-> Absent] }
AuthorMembers == {Absent} \cup {Some(a) : a \in Lists(RegistryAuthors, MaxAuthors)}

PublishedMembers == {Absent, Some([date_parts |-> << <<2024>> >>])}
TypeMembers == {Absent, Some(<<"j", "o", "u", "r", "n", "a", "l", "-", "a", "r", "t", "i", "c", "l", "e">>), Some(<<"p", "r", "o", "c", "e", "e", "d", "i", "n", "g", "s", "-", "a", "r", "t", "i", "c", "l", "e">>),
                Some(<<"b", "o", "o", "k">>)}
ContainerMembers == {Absent, Some(<<<<"T", "e", "s", "t", " ", "J", "o", "u", "r", "n", "a", "l">>>>)}
VolumeMembers == {Absent, Some(<<"7">>)}
IssueMembers == {Absent, Some(<<"2">>)}
PageMembers == {Absent, Some(<<"3", "4", "-", "4", "5">>)}

Messages ==
    [title : TitleMembers, author : AuthorMembers, published_print : PublishedMembers,
     type : TypeMembers, container_title : ContainerMembers, volume : VolumeMembers,
     issue : IssueMembers, page : PageMembers]

\* the records of the repository's tests, and the same without a type
SampleMessages ==
    {m \in Messages :
        /\ m.title = Some(<<<<"T", "e", "s", "t", " ", "A", "r", "t", "i", "c", "l", "e">>>>)
        /\ m.author = Some(<< [given |-> Some(<<"J", "o", "h", "n">>), family |-> Some(<<"D", "o", "e">>)] >>)
        /\ m.published_print.has /\ m.container_title.has
        /\ m.volume.has /\ m.issue.has /\ m.page.has}

---------------------------------------------------------------------------
(* The calls *)

NoCall == [op |-> "none"]

Init ==
    /\ pc = "idle"
    /\ call = NoCall
    /\ doi = None
    /\ data = Absent
    /\ fetches = <<>>
    /\ result = NoResult

\* generate_from_identifier up to the call of requests.get
generate_from_identifier(identifier) ==
    /\ pc = "idle"
    /\ call' = [op |-> "generate_from_identifier", identifier |-> identifier]
    /\ LET r == resolve_doi(identifier) IN
       IF r.kind = "error"
       THEN pc' = "done" /\ result' = r /\ UNCHANGED doi
       ELSE pc' = "fetch" /\ doi' = r.value /\ UNCHANGED result
    /\ UNCHANGED <<data, fetches>>

\* fetch_raises with the request repeated after a RequestException
fetch_raises_retry ==
    /\ pc = "fetch"
    /\ Len(fetches) < 2
    /\ fetches' = Append(fetches, doi)
    /\ UNCHANGED <<pc, call, doi, data, result>>

\* requests.get or raise_for_status raises a RequestException: fetch_from_doi
\* raises Exception, which generate_from_identifier does not catch
fetch_raises ==
    /\ pc = "fetch"
    /\ fetches' = Append(fetches, doi)
    /\ result' = Raised("Exception")
    /\ pc' = "done"
    /\ UNCHANGED <<call, doi, data>>

\* requests.get answers with a registry record: the rest of fetch_from_doi and
\* of generate_from_identifier
fetch_returns(message) ==
    /\ pc = "fetch"
    /\ fetches' = Append(fetches, doi)
    /\ data' = Some(message)
    /\ result' = IF title_raises(message)
                 THEN Raised("IndexError")
                 ELSE build_entry(publication_info(message, doi))
    /\ pc' = "done"
    /\ UNCHANGED <<call, doi>>

Next ==
    \/ pc = "idle" /\ \E identifier \in Identifiers : generate_from_identifier(identifier)
    \/ fetch_raises
    \/ pc = "fetch" /\ \E message \in Messages : fetch_returns(message)

Spec == Init /\ [][Next]_vars

NextResolve ==
    \/ pc = "idle" /\ \E identifier \in UrlIdentifiers \cup Identifiers :
                          generate_from_identifier(identifier)
    \/ fetch_raises
    \/ pc = "fetch" /\ \E message \in SampleMessages : fetch_returns(message)

SpecResolve == Init /\ [][NextResolve]_vars

---------------------------------------------------------------------------
(* Calls of the other public methods and of the two helpers *)

Call_extract_doi_from_url(url) ==
    /\ pc = "idle"
    /\ call' = [op |-> "extract_doi_from_url", url |-> url]
    /\ result' = Returned(extract_doi_from_url(url))
    /\ pc' = "done"
    /\ UNCHANGED <<doi, data, fetches>>

NextExtract == pc = "idle" /\ \E url \in Urls : Call_extract_doi_from_url(url)

SpecExtract == Init /\ [][NextExtract]_vars

\* an author list as a caller writes it: the names, each between some whitespace,
\* separated by commas
AuthorNames == {<<>>, <<"B", "o">>, <<"J", "o", "h", "n", " ", "D", "o", "e">>}
Padded == [left : {<<>>, <<" ">>}, name : AuthorNames, right : {<<>>, <<"\t", " ">>}]
PaddedLists == Lists(Padded, MaxNames) \ {<<>>}

padded_text(pieces) ==
    join(<<",">>, [i \in 1..Len(pieces) |->
                    pieces[i].left \o pieces[i].name \o pieces[i].right])

Call_format_authors(pieces) ==
    /\ pc = "idle"
    /\ call' = [op |-> "_format_authors", pieces |-> pieces, authors |-> padded_text(pieces)]
    /\ result' = Returned(_format_authors(padded_text(pieces)))
    /\ pc' = "done"
    /\ UNCHANGED <<doi, data, fetches>>

NextAuthors == pc = "idle" /\ \E pieces \in PaddedLists : Call_format_authors(pieces)

SpecAuthors == Init /\ [][NextAuthors]_vars

EntryTypes == {<<"a", "r", "t", "i", "c", "l", "e">>, <<"m", "i", "s", "c">>}
CitationKeys == {<<>>, <<"d", "o", "e", "2", "0", "2", "4", "a", "n", "a", "l", "y", "s", "i", "s">>, <<"d", "o", "e", "2", "0", "2", "4", "n", "e", "t", "s", ",">>, <<"k", ",", ",">>}
FieldNames == {<<"a", "u", "t", "h", "o", "r">>, <<"t", "i", "t", "l", "e">>, <<"n", "o", "t", "e">>}
FieldValues == {None, <<>>, <<"J", "o", "h", "n", " ", "D", "o", "e">>, <<"a", ",">>, <<"{", "x", "}", ",">>}
FieldMappings ==
    {f \in Lists(FieldNames \X FieldValues, MaxFields) :
        \A i, j \in 1..Len(f) : i # j => f[i][1] # f[j][1]}

Call_create_entry(entry_type, citation_key, fields) ==
    /\ pc = "idle"
    /\ call' = [op |-> "_create_entry", entry_type |-> entry_type,
                citation_key |-> citation_key, fields |-> fields]
    /\ result' = Returned(_create_entry(entry_type, citation_key, fields))
    /\ pc' = "done"
    /\ UNCHANGED <<doi, data, fetches>>

NextEntry ==
    /\ pc = "idle"
    /\ \E entry_type \in EntryTypes, citation_key \in CitationKeys,
          fields \in FieldMappings :
           Call_create_entry(entry_type, citation_key, fields)

SpecEntry == Init /\ [][NextEntry]_vars

RequiredValues == {<<>>, <<"A", " ", "T", "i", "t", "l", "e">>}
AuthorStrings == {<<>>, <<"J", "o", "h", "n", " ", "D", "o", "e">>, <<"J", "o", "h", "n", " ", "D", "o", "e", " ", ",", " ", " ", "J", "a", "n", "e", " ", "S", "m", "i", "t", "h", ",", "B", "o", "b", " ", "W", "i", "l", "s", "o", "n", " ", " ">>}
OptionalValues == {None, <<>>, <<"3", "4", "-", "4", "5">>}

ArticleArgs ==
    [citation_key : {<<"d", "o", "e", "2", "0", "2", "4", "a", "n", "a", "l", "y", "s", "i", "s">>}, title : RequiredValues, authors : AuthorStrings,
     journal : RequiredValues, year : {<<>>, <<"2", "0", "2", "4">>}, volume : OptionalValues,
     number : OptionalValues, pages : OptionalValues, doi : OptionalValues]

InproceedingArgs ==
    [citation_key : {<<"d", "o", "e", "2", "0", "2", "4", "a", "n", "a", "l", "y", "s", "i", "s">>}, title : RequiredValues, authors : AuthorStrings,
     booktitle : RequiredValues, year : {<<>>, <<"2", "0", "2", "4">>}, pages : OptionalValues,
     location : OptionalValues, doi : OptionalValues]

Call_create_article(a) ==
    /\ pc = "idle"
    /\ call' = [op |-> "create_article", args |-> a]
    /\ result' = Returned(create_article(a.citation_key, a.title, a.authors, a.journal, a.year,
                         a.volume, a.number, a.pages, a.doi))
    /\ pc' = "done"
    /\ UNCHANGED <<doi, data, fetches>>

Call_create_inproceeding(a) ==
    /\ pc = "idle"
    /\ call' = [op |-> "create_inproceeding", args |-> a]
    /\ result' = Returned(create_inproceeding(a.citation_key, a.title, a.authors, a.booktitle,
                         a.year, a.pages, a.location, a.doi))
    /\ pc' = "done"
    /\ UNCHANGED <<doi, data, fetches>>

NextManual ==
    \/ pc = "idle" /\ \E a \in ArticleArgs : Call_create_article(a)
    \/ pc = "idle" /\ \E a \in InproceedingArgs : Call_create_inproceeding(a)

SpecManual == Init /\ [][NextManual]_vars

---------------------------------------------------------------------------
(* Reading a BibTeX text back: its entry-type name, its citation key and   *)
(* its field lines. The values of the inputs above hold no newline.        *)

IndexOf(s, c) == CHOOSE k \in 1..Len(s) : s[k] = c /\ \A j \in 1..(k - 1) : s[j] # c

LinesOf(text) == split(text, "\n")

\* the lines between the header and the closing brace
FieldLinesOf(text) == SubSeq(LinesOf(text), 2, Len(LinesOf(text)) - 1)

EntryTypeNameOf(text) == SubSeq(text, 2, IndexOf(text, "{") - 1)

\* the header is @<type>{<key>, when a field line follows it
CitationKeyOf(text) ==
    LET header == LinesOf(text)[1]
        open == IndexOf(header, "{")
    IN  SubSeq(header, open + 1,
               IF FieldLinesOf(text) = <<>> THEN Len(header) ELSE Len(header) - 1)

\* a field line is two spaces, the name, " = {", the value, "}" and, unless it
\* is the last one, a comma
FieldNameOf(line) == SubSeq(line, 3, IndexOf(SubSeq(line, 3, Len(line)), " ") + 1)

FieldValueOf(line, last) ==
    SubSeq(line, Len(FieldNameOf(line)) + 7, IF last THEN Len(line) - 1 ELSE Len(line) - 2)

FieldNamesOf(text) ==
    [i \in 1..Len(FieldLinesOf(text)) |-> FieldNameOf(FieldLinesOf(text)[i])]

HasField(text, name) == \E i \in 1..Len(FieldNamesOf(text)) : FieldNamesOf(text)[i] = name

ValueOfField(text, name) ==
    LET lines == FieldLinesOf(text)
        i == CHOOSE k \in 1..Len(lines) : FieldNameOf(lines[k]) = name
    IN  FieldValueOf(lines[i], i = Len(lines))

\* the members of order that are in keep, in the order of order
Selected(order, keep) == SelectSeq(order, LAMBDA n : n \in keep)

ArticleOrder ==
    <<<<"a", "u", "t", "h", "o", "r">>, <<"t", "i", "t", "l", "e">>, <<"j", "o", "u", "r", "n", "a", "l">>, <<"y", "e", "a", "r">>, <<"v", "o", "l", "u", "m", "e">>, <<"n", "u", "m", "b", "e", "r">>, <<"p", "a", "g", "e", "s">>, <<"d", "o", "i">>>>
InProceedingsOrder ==
    <<<<"a", "u", "t", "h", "o", "r">>, <<"t", "i", "t", "l", "e">>, <<"b", "o", "o", "k", "t", "i", "t", "l", "e">>, <<"y", "e", "a", "r">>, <<"p", "a", "g", "e", "s">>, <<"a", "d", "d", "r", "e", "s", "s">>, <<"d", "o", "i">>>>

IsSubsequenceOf(names, order) ==
    names = Selected(order, {names[i] : i \in 1..Len(names)})

---------------------------------------------------------------------------
(* The three DOI patterns, stated as what a text must look like            *)

IsSegment(w) == w # <<>> /\ \A i \in 1..Len(w) : w[i] # "/" /\ w[i] \notin whitespace

IsNumber(w) == w # <<>> /\ \A i \in 1..Len(w) : w[i] \in digits

\* <segment>/<segment>
IsSegSeg(w) ==
    \E k \in 1..Len(w) :
        /\ w[k] = "/"
        /\ IsSegment(SubSeq(w, 1, k - 1))
        /\ IsSegment(SubSeq(w, k + 1, Len(w)))

\* <digits>.<digits>/<segment>
IsNumSeg(w) ==
    \E d \in 1..Len(w), k \in 1..Len(w) :
        /\ d < k /\ w[d] = "." /\ w[k] = "/"
        /\ IsNumber(SubSeq(w, 1, d - 1))
        /\ IsNumber(SubSeq(w, d + 1, k - 1))
        /\ IsSegment(SubSeq(w, k + 1, Len(w)))

PrecededBy(s, i, marker) ==
    i > Len(marker) /\ SubSeq(s, i - Len(marker), i - 1) = marker

\* every DOI the n-th pattern can capture somewhere in s
Captures(n, s) ==
    {SubSeq(s, i, j) : <<i, j>> \in
        {x \in (1..Len(s)) \X (1..Len(s)) :
            LET w == SubSeq(s, x[1], x[2]) IN
            CASE n = 1 -> IsSegSeg(w) /\ PrecededBy(s, x[1], <<"d", "o", "i", ".", "o", "r", "g", "/">>)
              [] n = 2 -> IsSegSeg(w) /\ PrecededBy(s, x[1], <<"d", "o", "i", ":">>)
              [] n = 3 -> IsNumSeg(w)}}

NoPatternMatches(s) == \A n \in 1..3 : Captures(n, s) = {}

IsUrl(identifier) == startswith(identifier, <<"h", "t", "t", "p">>)

Generating == call.op = "generate_from_identifier"

---------------------------------------------------------------------------
(* The claims *)

\* C1: an identifier that is treated as a URL and in which none of the three DOI
\* patterns matches makes generate_from_identifier fail with the ValueError of
\* the resolution, and requests.get is not called in that invocation.
C1_NoFetchWithoutDoi ==
    (Generating /\ IsUrl(call.identifier) /\ NoPatternMatches(call.identifier))
        => /\ pc = "done"
           /\ result = Raised("ValueError")
           /\ fetches = <<>>

C1_Witness ==
    /\ Generating /\ IsUrl(call.identifier) /\ NoPatternMatches(call.identifier)
    /\ Len(call.identifier) > 4
    /\ pc = "done" /\ result = Raised("ValueError")

\* C2: an invocation whose identifier resolves to a DOI calls requests.get exactly
\* once, with that DOI, whether the fetch succeeds or fails; a failed fetch is not
\* repeated and ends the invocation with the transport error, not with a text.
C2_OneFetch ==
    /\ Len(fetches) <= 1
    /\ pc = "fetch" => fetches = <<>>
    /\ (pc = "done" /\ Generating
            /\ (~IsUrl(call.identifier) \/ ~NoPatternMatches(call.identifier)))
           => fetches = <<doi>>
    /\ (pc = "done" /\ fetches # <<>> /\ ~data.has)
           => result = Raised("Exception")

C2_Witness ==
    /\ pc = "done" /\ Generating /\ IsUrl(call.identifier)
    /\ fetches = <<doi>> /\ ~data.has /\ result = Raised("Exception")

\* C9: extract_doi_from_url returns a DOI captured by the first of the three
\* patterns, in the order doi.org/, doi:, bare number, that matches anywhere in
\* the url, and None when none of the three matches.
C9_PatternPriority ==
    call.op = "extract_doi_from_url" =>
        LET url == call.url
            r == result.value
        IN  IF Captures(1, url) # {} THEN r \in Captures(1, url)
            ELSE IF Captures(2, url) # {} THEN r \in Captures(2, url)
            ELSE IF Captures(3, url) # {} THEN r \in Captures(3, url)
            ELSE r = None

\* a url in which the doi.org/ pattern and another pattern capture different texts
C9_Witness ==
    /\ call.op = "extract_doi_from_url"
    /\ Captures(1, call.url) # {}
    /\ \E n \in 2..3 : Captures(n, call.url) \ Captures(1, call.url) # {}
    /\ result.value \in Captures(1, call.url)

\* C10: for n >= 1 names written as a comma-separated text with any whitespace
\* around each name, _format_authors returns the names, in the same order and
\* without that whitespace, joined by " and ".
C10_FormatAuthors ==
    call.op = "_format_authors" =>
        result.value = join(<<" ", "a", "n", "d", " ">>, [i \in 1..Len(call.pieces) |-> call.pieces[i].name])

C10_Witness ==
    /\ call.op = "_format_authors"
    /\ Len(call.pieces) >= 2
    /\ \E i \in 1..Len(call.pieces) :
           call.pieces[i].left # <<>> /\ call.pieces[i].right # <<>>
    /\ result.value = join(<<" ", "a", "n", "d", " ">>, [i \in 1..Len(call.pieces) |-> call.pieces[i].name])

---------------------------------------------------------------------------
(* Claims about the entry built from a fetched record *)

Fetched == pc = "done" /\ Generating /\ data.has

\* the "Given Family" text of a registry author
GivenFamily(author) == Get(author.given, <<>>) \o <<" ">> \o Get(author.family, <<>>)

HasWord(s) == \E i \in 1..Len(s) : s[i] \notin whitespace

\* the record has a title and a first author, and each holds a word (for the
\* author: before any comma, where the code cuts the author text)
KeyDerivable(message) ==
    /\ message.title.has /\ message.title.val # <<>>
    /\ HasWord(message.title.val[1])
    /\ message.author.has /\ message.author.val # <<>>
    /\ HasWord(split(GivenFamily(message.author.val[1]), ",")[1])

SourceTypeIs(message, type) == message.type.has /\ message.type.val = type

KnownSourceType(message) ==
    \/ SourceTypeIs(message, <<"j", "o", "u", "r", "n", "a", "l", "-", "a", "r", "t", "i", "c", "l", "e">>)
    \/ SourceTypeIs(message, <<"p", "r", "o", "c", "e", "e", "d", "i", "n", "g", "s", "-", "a", "r", "t", "i", "c", "l", "e">>)

\* C3: a fetched record with title and authors is built by its sourceType:
\* journal-article gives an Article entry, proceedings-article gives an
\* InProceedings text whose fields follow the order author, title, booktitle,
\* year, pages, address, doi, booktitle being the container title.
C3_KindBySourceType ==
    (Fetched /\ KeyDerivable(data.val)) =>
        /\ SourceTypeIs(data.val, <<"j", "o", "u", "r", "n", "a", "l", "-", "a", "r", "t", "i", "c", "l", "e">>) =>
               /\ result.kind = "text"
               /\ EntryTypeNameOf(result.text) = <<"a", "r", "t", "i", "c", "l", "e">>
        /\ SourceTypeIs(data.val, <<"p", "r", "o", "c", "e", "e", "d", "i", "n", "g", "s", "-", "a", "r", "t", "i", "c", "l", "e">>) =>
               /\ result.kind = "text"
               /\ IsSubsequenceOf(FieldNamesOf(result.text), InProceedingsOrder)
               /\ data.val.container_title.has =>
                      /\ HasField(result.text, <<"b", "o", "o", "k", "t", "i", "t", "l", "e">>)
                      /\ ValueOfField(result.text, <<"b", "o", "o", "k", "t", "i", "t", "l", "e">>)
                             = data.val.container_title.val[1]

\* C4, as claimed: a fetched record whose sourceType is neither journal-article
\* nor proceedings-article (or is absent) gives a text whose entry-type name is
\* the raw sourceType, not article.
C4_GenericFallback ==
    (Fetched /\ KeyDerivable(data.val) /\ ~KnownSourceType(data.val)) =>
        /\ result.kind = "text"
        /\ EntryTypeNameOf(result.text) # <<"a", "r", "t", "i", "c", "l", "e">>
        /\ data.val.type.has => EntryTypeNameOf(result.text) = data.val.type.val

\* C4, amended: a fetched record whose sourceType is neither journal-article nor
\* proceedings-article (or is absent), and whose citation key can be derived,
\* gives an Article entry: the entry-type name is article and the fields are
\* those of an article, in the article order.
C4_ArticleFallback ==
    (Fetched /\ KeyDerivable(data.val) /\ ~KnownSourceType(data.val)) =>
        /\ result.kind = "text"
        /\ EntryTypeNameOf(result.text) = <<"a", "r", "t", "i", "c", "l", "e">>
        /\ IsSubsequenceOf(FieldNamesOf(result.text), ArticleOrder)
        /\ ~HasField(result.text, <<"t", "y", "p", "e">>)

C4_Witness ==
    /\ Fetched /\ SourceTypeIs(data.val, <<"b", "o", "o", "k">>)
    /\ result.kind = "text" /\ EntryTypeNameOf(result.text) = <<"a", "r", "t", "i", "c", "l", "e">>

LastWord(s) == split_ws(s)[Len(split_ws(s))]
FirstWord(s) == split_ws(s)[1]

\* C7: the citation key of the text built from a fetched record is the lowercase
\* last word of the first registry author's "Given Family" text, then the year,
\* then the lowercase first word of the title.
C7_CitationKey ==
    (Fetched /\ result.kind = "text" /\ data.val.published_print.has) =>
        CitationKeyOf(result.text) =
            lower(LastWord(GivenFamily(data.val.author.val[1])))
                \o str_int(data.val.published_print.val.date_parts[1][1])
                \o lower(FirstWord(data.val.title.val[1]))

\* C8: a fetched record with title and authors still gives a text when optional
\* members are missing, and a missing print-publication date, container title,
\* volume, issue or page leaves no year, journal, volume, number or pages line.
C8_MissingFieldsAbsent ==
    (Fetched /\ KeyDerivable(data.val)
            /\ ~SourceTypeIs(data.val, <<"p", "r", "o", "c", "e", "e", "d", "i", "n", "g", "s", "-", "a", "r", "t", "i", "c", "l", "e">>)) =>
        /\ result.kind = "text"
        /\ ~data.val.published_print.has => ~HasField(result.text, <<"y", "e", "a", "r">>)
        /\ ~data.val.container_title.has => ~HasField(result.text, <<"j", "o", "u", "r", "n", "a", "l">>)
        /\ ~data.val.volume.has => ~HasField(result.text, <<"v", "o", "l", "u", "m", "e">>)
        /\ ~data.val.issue.has => ~HasField(result.text, <<"n", "u", "m", "b", "e", "r">>)
        /\ ~data.val.page.has => ~HasField(result.text, <<"p", "a", "g", "e", "s">>)

---------------------------------------------------------------------------
(* Claims about the serializer and the manual constructors *)

\* one line "  <name> = {<value>},\n" per field whose value is neither absent
\* nor empty, in mapping order
RECURSIVE ExpectedLines(_)
ExpectedLines(fields) ==
    IF fields = <<>> THEN <<>>
    ELSE (IF Head(fields)[2] = None \/ Head(fields)[2] = <<>>
          THEN <<>>
          ELSE <<" ", " ">> \o Head(fields)[1] \o <<" ", "=", " ", "{">> \o Head(fields)[2] \o <<"}", ",", "\n">>)
             \o ExpectedLines(Tail(fields))

\* the header and the lines, the comma and newline that end the last line
\* replaced by a newline and the closing brace
ExpectedEntry(entry_type, citation_key, fields) ==
    LET lines == <<"@">> \o entry_type \o <<"{">> \o citation_key \o <<",", "\n">>
                     \o ExpectedLines(fields)
    IN  SubSeq(lines, 1, Len(lines) - 2) \o <<"\n", "}">>

\* C5: _create_entry returns the header @<type>{<key>, and a newline, then one
\* line per field with a non-absent, non-empty value in mapping order, the
\* comma and newline of the last line replaced by a newline and a closing brace.
C5_EntryShape ==
    call.op = "_create_entry" =>
        result.value = ExpectedEntry(call.entry_type, call.citation_key, call.fields)

ArticleArgument(a, name) ==
    CASE name = <<"a", "u", "t", "h", "o", "r">> -> _format_authors(a.authors)
      [] name = <<"t", "i", "t", "l", "e">> -> a.title
      [] name = <<"j", "o", "u", "r", "n", "a", "l">> -> a.journal
      [] name = <<"y", "e", "a", "r">> -> a.year
      [] name = <<"v", "o", "l", "u", "m", "e">> -> a.volume
      [] name = <<"n", "u", "m", "b", "e", "r">> -> a.number
      [] name = <<"p", "a", "g", "e", "s">> -> a.pages
      [] name = <<"d", "o", "i">> -> a.doi

InProceedingsArgument(a, name) ==
    CASE name = <<"a", "u", "t", "h", "o", "r">> -> _format_authors(a.authors)
      [] name = <<"t", "i", "t", "l", "e">> -> a.title
      [] name = <<"b", "o", "o", "k", "t", "i", "t", "l", "e">> -> a.booktitle
      [] name = <<"y", "e", "a", "r">> -> a.year
      [] name = <<"p", "a", "g", "e", "s">> -> a.pages
      [] name = <<"a", "d", "d", "r", "e", "s", "s">> -> a.location
      [] name = <<"d", "o", "i">> -> a.doi

Names(order) == {order[i] : i \in 1..Len(order)}

\* C6: create_article emits its present fields in the order author, title,
\* journal, year, volume, number, pages, doi and create_inproceeding in the order
\* author, title, booktitle, year, pages, address, doi, whichever optional
\* arguments are given; author is the formatted author text and address the
\* location argument.
C6_FieldOrder ==
    /\ call.op = "create_article" =>
           LET a == call.args
               text == result.value
               present == {n \in Names(ArticleOrder) : Truthy(ArticleArgument(a, n))}
           IN  /\ FieldNamesOf(text) = Selected(ArticleOrder, present)
               /\ \A n \in present : ValueOfField(text, n) = ArticleArgument(a, n)
    /\ call.op = "create_inproceeding" =>
           LET a == call.args
               text == result.value
               present == {n \in Names(InProceedingsOrder) :
                               Truthy(InProceedingsArgument(a, n))}
           IN  /\ FieldNamesOf(text) = Selected(InProceedingsOrder, present)
               /\ \A n \in present : ValueOfField(text, n) = InProceedingsArgument(a, n)

\* an article with volume omitted and number, pages and doi given
C6_Witness ==
    /\ call.op = "create_article"
    /\ call.args.volume = None /\ Truthy(call.args.number)
    /\ Truthy(call.args.pages) /\ Truthy(call.args.doi)
    /\ Len(FieldNamesOf(result.value)) = 7

=============================================================================
